---- MODULE Spec2Model ----
(***************************************************************************)
(* Model of CartPoleEnv (src/task3.py): the noisy cart-pole dynamics       *)
(* engine with its seed / reset / step interface.                          *)
(*                                                                         *)
(* Real numbers are fixed-point integers in thousandths (Scale); the two   *)
(* friction coefficients, too small for thousandths, are kept in           *)
(* millionths.  A random generator is a stream: a pair (seed, pos) whose   *)
(* pos-th draw is a fixed function of the seed, so that seeding with the   *)
(* same value replays the same draws.  The instance generator              *)
(* (self.np_random) is one stream per engine; the module-level generator   *)
(* of numpy (np.random) is one stream shared by every engine of the        *)
(* process, seeded from entropy and never re-seeded by this program.       *)
(***************************************************************************)
EXTENDS Integers, Sequences, FiniteSets, TLC

VARIABLES env, np_random_global, ret, hist, calls, pending

vars == <<env, np_random_global, ret, hist, calls, pending>>

----------------------------------------------------------------------------
(* Bounds of the model *)

MaxSetupCalls == 2     \* seed() and reset() calls on an engine
MaxSteps == 6          \* step() calls that return (bounds the global stream)

(* Inputs *)

Seeds == {0, 1}        \* seed values, given or taken from entropy
GlobalSeeds == {0, 1}  \* entropy seeds of the module-level generator
Actions == {0, 1, 2}   \* 2 stands for any action outside the action space

----------------------------------------------------------------------------
(* Fixed-point arithmetic *)

Scale == 10 ^ 3
Micro == 10 ^ 6

\* a / b for b > 0, rounded toward zero
TDiv(a, b) == IF a >= 0 THEN a \div b ELSE -((-a) \div b)

\* a * b of two fixed-point numbers
Mul(a, b) == TDiv(a * b, Scale)

\* math.sin, math.cos (Taylor polynomials, within a thousandth of the
\* functions for angles below 1 radian, which the bounded runs stay under)
Sin(t) ==
  LET t3 == Mul(Mul(t, t), t)
  IN  t - TDiv(t3, 6) + TDiv(Mul(Mul(t3, t), t), 120)

Cos(t) == Scale - TDiv(Mul(t, t), 2) + TDiv(Mul(Mul(t, t), Mul(t, t)), 24)

\* np.sign
Sign(v) == IF v > 0 THEN 1 ELSE IF v < 0 THEN -1 ELSE 0

----------------------------------------------------------------------------
(* Random streams *)

\* Draws in [0, 1) of the generator seeded with 0, 1 (then repeating); they
\* take the pole over the angle threshold, onto it and back inside it within
\* MaxSteps steps
UnitTable ==
  << <<999, 999, 999, 750, 999, 999, 999, 999, 0, 750, 500>>,
     <<250, 250, 999, 999, 750, 999, 999, 999, 999, 750, 500>> >>

\* Standard-normal draws of the module-level generator
GaussTable ==
  << <<0, 1000, -1000, -1000, 1000, 0, 1000>>,
     <<1000, 1000, 0, 0, 1000, -1000, -1000>> >>

Unit(seed, pos) ==
  LET row == UnitTable[(seed % Len(UnitTable)) + 1]
  IN  row[(pos % Len(row)) + 1]

Gauss(seed, pos) ==
  LET row == GaussTable[(seed % Len(GaussTable)) + 1]
  IN  row[(pos % Len(row)) + 1]

\* seeding.np_random(seed): a fresh stream
np_random(seed) == [seed |-> seed, pos |-> 0]

\* RandomState.uniform(low, high): the k-th next draw of stream rng
uniform(rng, k, low, high) ==
  low + TDiv((high - low) * Unit(rng.seed, rng.pos + k), Scale)

\* np.random.randn(): the k-th next draw of the module-level stream
randn(rng, k) == Gauss(rng.seed, rng.pos + k)

Advance(rng, n) == [rng EXCEPT !.pos = @ + n]

----------------------------------------------------------------------------
(* The engine *)

\* An optional value: None, or Some(v)
None == <<>>

Some(v) == <<v>>

\* A constructor that starts the engine at the origin instead of None
initial_state_origin == <<0, 0, 0, 0>>

\* self.state as __init__ leaves it
initial_state == None

\* CartPoleEnv.__init__ with an entropy seed s0 (self.seed() with no value)
Construct(s0) ==
  LET masscart == 1000
      masspole == 400
      length == 500
      rng == np_random(s0)
  IN  [ gravity |-> 9800,
        masscart |-> masscart,
        masspole |-> masspole,
        total_mass |-> masspole + masscart,
        length |-> length,
        polemass_length |-> Mul(masspole, length),
        force_mag |-> Mul(10 * Scale, Scale + uniform(rng, 0, -300, 300)),
        tau |-> 20,
        frictioncart |-> 500,       \* millionths
        frictionpole |-> 2,         \* millionths
        gravity_eps |-> 990,
        frictioncart_eps |-> 990,
        frictionpole_eps |-> 990,
        theta_threshold_radians |-> TDiv(12 * 2 * 3141593, 360 * Scale),
        x_threshold |-> 2400,
        np_random |-> Advance(rng, 1),
        state |-> initial_state,
        steps_beyond_done |-> None ]

\* The stored parameters of an engine
Params(self) ==
  [ gravity |-> self.gravity, masscart |-> self.masscart,
    masspole |-> self.masspole, total_mass |-> self.total_mass,
    length |-> self.length, polemass_length |-> self.polemass_length,
    force_mag |-> self.force_mag, tau |-> self.tau,
    frictioncart |-> self.frictioncart, frictionpole |-> self.frictionpole,
    gravity_eps |-> self.gravity_eps,
    frictioncart_eps |-> self.frictioncart_eps,
    frictionpole_eps |-> self.frictionpole_eps,
    theta_threshold_radians |-> self.theta_threshold_radians,
    x_threshold |-> self.x_threshold ]

\* An action space one value too wide
action_space_contains_wide(action) == action \in {0, 1, 2}

\* self.action_space.contains(action), action_space = Discrete(2)
action_space_contains(action) == action \in {0, 1}

\* x, x_dot, theta, theta_dot = state : possible unless state is None
CanUnpack(state) == Len(state) = 4

\* One Euler slice: the new (x, x_dot, theta, theta_dot)
Integrate(self, action, n1, n2, n3, noise) ==
  LET x == self.state[1]
      x_dot == self.state[2]
      theta == self.state[3]
      theta_dot == self.state[4]
      force == IF action = 1 THEN self.force_mag ELSE -self.force_mag
      costheta == Cos(theta)
      sintheta == Sin(theta)
      temp ==
        TDiv((force
              + Mul(Mul(self.polemass_length, Mul(theta_dot, theta_dot)),
                    sintheta)
              - TDiv(self.frictioncart
                       * (4 * Scale + Mul(self.frictioncart_eps, n1)),
                     Micro) * Sign(x_dot)) * Scale,
             self.total_mass)
      thetaacc ==
        TDiv((Mul(Mul(self.gravity, 4 * Scale + Mul(self.gravity_eps, n2)),
                  sintheta)
              - Mul(costheta, temp)
              - TDiv(self.frictionpole
                       * (4 * Scale + Mul(self.frictionpole_eps, n3))
                       * theta_dot,
                     Micro * self.polemass_length)) * Scale,
             Mul(self.length,
                 TDiv(4 * Scale, 3)
                   - TDiv(self.masspole * Mul(costheta, costheta),
                          self.total_mass)))
      xacc == temp - TDiv(Mul(Mul(self.polemass_length, thetaacc), costheta)
                            * Scale,
                          self.total_mass)
  IN  << x + Mul(self.tau, x_dot),
         x_dot + Mul(self.tau, xacc),
         Mul(theta + Mul(self.tau, theta_dot), Scale + noise),
         theta_dot + Mul(self.tau, thetaacc) >>

\* A termination predicate that also fires on the upper thresholds themselves
Done_inclusive(self, x, theta) ==
  \/ x < -self.x_threshold
  \/ x >= self.x_threshold
  \/ theta < -self.theta_threshold_radians
  \/ theta >= self.theta_threshold_radians

\* The termination predicate on the updated x and theta
Done(self, x, theta) ==
  \/ x < -self.x_threshold
  \/ x > self.x_threshold
  \/ theta < -self.theta_threshold_radians
  \/ theta > self.theta_threshold_radians

\* An outcome that pins the reward to 0 once the episode has terminated
Outcome_pinned(steps_beyond_done, done) ==
  IF steps_beyond_done # None
  THEN [reward |-> 0,
        steps_beyond_done |-> Some(steps_beyond_done[1] + 1),
        warned |-> (steps_beyond_done[1] = 0)]
  ELSE IF done
  THEN [reward |-> 1, steps_beyond_done |-> Some(0), warned |-> FALSE]
  ELSE [reward |-> 1, steps_beyond_done |-> steps_beyond_done,
        warned |-> FALSE]

\* An outcome that forgets the termination when the state is back inside
Outcome_forgetful(steps_beyond_done, done) ==
  IF ~done
  THEN [reward |-> 1, steps_beyond_done |-> None, warned |-> FALSE]
  ELSE IF steps_beyond_done = None
  THEN [reward |-> 1, steps_beyond_done |-> Some(0), warned |-> FALSE]
  ELSE [reward |-> 0,
        steps_beyond_done |-> Some(steps_beyond_done[1] + 1),
        warned |-> (steps_beyond_done[1] = 0)]

\* Reward, new steps_beyond_done and the warning, from done and the old
\* steps_beyond_done
Outcome(steps_beyond_done, done) ==
  IF ~done
  THEN [reward |-> 1, steps_beyond_done |-> steps_beyond_done,
        warned |-> FALSE]
  ELSE IF steps_beyond_done = None
  THEN [reward |-> 1, steps_beyond_done |-> Some(0), warned |-> FALSE]
  ELSE [reward |-> 0,
        steps_beyond_done |-> Some(steps_beyond_done[1] + 1),
        warned |-> (steps_beyond_done[1] = 0)]

----------------------------------------------------------------------------
(* What the last call on an engine was, and what it returned or raised *)

NoCall ==
  [call |-> "none", arg |-> 0, raised |-> "none", obs |-> None,
   reward |-> 0, done |-> FALSE, warned |-> FALSE]

Raised(call, arg, error) ==
  [NoCall EXCEPT !.call = call, !.arg = arg, !.raised = error]

\* History of an engine since its last reset: steps that returned done, steps
\* called after a step had returned done, warnings emitted; and the
\* steps_beyond_done that the last reset found
NoHist == [ndone |-> 0, nafter |-> 0, nwarn |-> 0, found |-> None]

NoCalls == [seed |-> 0, reset |-> 0]

----------------------------------------------------------------------------
(* The methods, as functions of the engine *)

\* A seed that also redraws force_mag from the new stream
seed_self_redraw(self, s) ==
  [self EXCEPT
     !.np_random = Advance(np_random(s), 1),
     !.force_mag = Mul(10 * Scale, Scale + uniform(np_random(s), 0, -300, 300))]

\* CartPoleEnv.seed(seed): the engine afterwards
seed_self(self, s) == [self EXCEPT !.np_random = np_random(s)]

\* A reset that leaves steps_beyond_done as it finds it
reset_self_keep(self) ==
  [self EXCEPT
     !.state = [i \in 1 .. 4 |-> uniform(self.np_random, i - 1, -50, 50)],
     !.np_random = Advance(self.np_random, 4)]

\* CartPoleEnv.reset(): the engine afterwards
reset_self(self) ==
  [self EXCEPT
     !.state = [i \in 1 .. 4 |-> uniform(self.np_random, i - 1, -50, 50)],
     !.steps_beyond_done = None,
     !.np_random = Advance(self.np_random, 4)]

\* CartPoleEnv.step(action) past its two checks: the engine afterwards and
\* the returned reward, done and warning
step_self(self, global, action) ==
  LET n1 == randn(global, 0)
      n2 == randn(global, 1)
      n3 == randn(global, 2)
      noise == uniform(self.np_random, 0, -300, 300)
      state == Integrate(self, action, n1, n2, n3, noise)
      done == Done(self, state[1], state[3])
      out == Outcome(self.steps_beyond_done, done)
  IN  [self |-> [self EXCEPT !.state = state,
                             !.steps_beyond_done = out.steps_beyond_done,
                             !.np_random = Advance(self.np_random, 1)],
       reward |-> out.reward, done |-> done, warned |-> out.warned]

----------------------------------------------------------------------------
(* The calls: e is the engine, the rest are the call's arguments *)

seed(e, s) ==
  /\ env' = [env EXCEPT ![e] = seed_self(env[e], s)]
  /\ ret' = [ret EXCEPT ![e] = [NoCall EXCEPT !.call = "seed", !.arg = s]]
  /\ calls' = [calls EXCEPT ![e].seed = @ + 1]
  /\ UNCHANGED <<np_random_global, hist>>

reset(e) ==
  /\ env' = [env EXCEPT ![e] = reset_self(env[e])]
  /\ ret' = [ret EXCEPT ![e] = [NoCall EXCEPT !.call = "reset",
                                               !.obs = env'[e].state]]
  /\ hist' = [hist EXCEPT
                ![e] = [NoHist EXCEPT !.found = env[e].steps_beyond_done]]
  /\ calls' = [calls EXCEPT ![e].reset = @ + 1]
  /\ UNCHANGED np_random_global

step(e, action) ==
  IF ~action_space_contains(action)
  THEN /\ ret' = [ret EXCEPT ![e] = Raised("step", action, "AssertionError")]
       /\ UNCHANGED <<env, np_random_global, hist, calls>>
  ELSE IF ~CanUnpack(env[e].state)
  THEN /\ ret' = [ret EXCEPT ![e] = Raised("step", action, "TypeError")]
       /\ UNCHANGED <<env, np_random_global, hist, calls>>
  ELSE
    LET r == step_self(env[e], np_random_global, action)
    IN  /\ np_random_global.pos < 3 * MaxSteps
        /\ env' = [env EXCEPT ![e] = r.self]
        /\ np_random_global' = Advance(np_random_global, 3)
        /\ ret' = [ret EXCEPT ![e] = [NoCall EXCEPT !.call = "step",
                                                     !.arg = action,
                                                     !.obs = r.self.state,
                                                     !.reward = r.reward,
                                                     !.done = r.done,
                                                     !.warned = r.warned]]
        /\ hist' = [hist EXCEPT
                      ![e].ndone = @ + (IF r.done THEN 1 ELSE 0),
                      ![e].nafter = @ + (IF hist[e].ndone > 0 THEN 1 ELSE 0),
                      ![e].nwarn = @ + (IF r.warned THEN 1 ELSE 0)]
        /\ UNCHANGED calls

----------------------------------------------------------------------------
(* One engine driven by an arbitrary caller *)

Init ==
  /\ \E s0 \in Seeds : env = [e \in {1} |-> Construct(s0)]
  /\ \E g \in GlobalSeeds : np_random_global = np_random(g)
  /\ ret = [e \in {1} |-> NoCall]
  /\ hist = [e \in {1} |-> NoHist]
  /\ calls = [e \in {1} |-> NoCalls]
  /\ pending = <<>>

Seed ==
  /\ calls[1].seed + calls[1].reset < MaxSetupCalls
  /\ \E s \in Seeds : seed(1, s)
  /\ UNCHANGED pending

Reset ==
  /\ calls[1].seed + calls[1].reset < MaxSetupCalls
  /\ reset(1)
  /\ UNCHANGED pending

Step ==
  /\ \E action \in Actions : step(1, action)
  /\ UNCHANGED pending

Next == Seed \/ Reset \/ Step

Spec == Init /\ [][Next]_vars

----------------------------------------------------------------------------
(* Two engines of one process given the same calls: seed(s), reset(), then *)
(* steps.  Each call goes to engine 1 and is then repeated on engine 2.    *)

InitPair ==
  /\ \E s1, s2 \in Seeds : env = [e \in {1, 2} |->
                                    IF e = 1 THEN Construct(s1)
                                             ELSE Construct(s2)]
  /\ \E g \in GlobalSeeds : np_random_global = np_random(g)
  /\ ret = [e \in {1, 2} |-> NoCall]
  /\ hist = [e \in {1, 2} |-> NoHist]
  /\ calls = [e \in {1, 2} |-> NoCalls]
  /\ pending = <<>>

PairSeed ==
  /\ pending = <<>>
  /\ calls[1].seed = 0
  /\ \E s \in Seeds : seed(1, s) /\ pending' = <<"seed", s>>

PairReset ==
  /\ pending = <<>>
  /\ calls[1].seed = 1
  /\ calls[1].reset = 0
  /\ reset(1)
  /\ pending' = <<"reset", 0>>

PairStep ==
  /\ pending = <<>>
  /\ calls[1].reset = 1
  /\ \E action \in {0, 1} : step(1, action) /\ pending' = <<"step", action>>

PairRepeat ==
  /\ pending # <<>>
  /\ CASE pending[1] = "seed" -> seed(2, pending[2])
       [] pending[1] = "reset" -> reset(2)
       [] pending[1] = "step" -> step(2, pending[2])
  /\ pending' = <<>>

NextPair == PairSeed \/ PairReset \/ PairStep \/ PairRepeat

SpecPair == InitPair /\ [][NextPair]_vars

----------------------------------------------------------------------------
(* Properties *)

\* This transition is a step call on engine 1 that returned
StepReturned ==
  /\ np_random_global'.pos = np_random_global.pos + 3
  /\ ret'[1].call = "step"
  /\ ret'[1].raised = "none"

\* The last call on engine 1 was a step that returned
LastStepReturned == ret[1].call = "step" /\ ret[1].raised = "none"

\* C1 (as claimed): two engines seeded with the same value, then reset, then
\* given the same step actions return the same observation, reward and done
\* at every step.
C1_SameSeedSameTrajectory ==
  (pending = <<>> /\ ret[1].call = "step" /\ ret[2].call = "step")
    => /\ ret[1].obs = ret[2].obs
       /\ ret[1].reward = ret[2].reward
       /\ ret[1].done = ret[2].done

\* C2 (as claimed): the first step of an episode that returns done returns
\* reward 1, and every later step of the episode returns reward 0 and
\* increases steps_beyond_done by exactly 1.
C2_RewardLaw ==
  [][StepReturned =>
       /\ (hist[1].ndone = 0 /\ ret'[1].done) => ret'[1].reward = 1
       /\ hist[1].ndone > 0 =>
            /\ ret'[1].reward = 0
            /\ env[1].steps_beyond_done # None
            /\ env'[1].steps_beyond_done
                 = Some(env[1].steps_beyond_done[1] + 1)]_vars

\* C3: a step call whose action is outside {0, 1} raises, and leaves the
\* state, steps_beyond_done, the parameters and both random streams as they
\* were, before reset, during an episode and after done.
C3_InvalidActionRejected ==
  [][(ret'[1].call = "step" /\ ~(ret'[1].arg \in {0, 1}))
       => /\ ret'[1].raised = "AssertionError"
          /\ env' = env
          /\ np_random_global' = np_random_global]_vars

C3_Witness ==
  /\ ret[1].call = "step"
  /\ ret[1].arg = 2
  /\ ret[1].raised = "AssertionError"
  /\ env[1].steps_beyond_done # None

\* C4: a step call with a valid action on an engine that was never reset
\* raises; afterwards state and steps_beyond_done are still None and no
\* random draw has been consumed.
C4_StepBeforeResetFails ==
  [][(ret'[1].call = "step" /\ ret'[1].arg \in {0, 1} /\ calls[1].reset = 0)
       => /\ ret'[1].raised = "TypeError"
          /\ env'[1].state = None
          /\ env'[1].steps_beyond_done = None
          /\ env'[1].np_random = env[1].np_random
          /\ np_random_global' = np_random_global]_vars

C4_Witness ==
  /\ ret[1].call = "step"
  /\ ret[1].arg = 1
  /\ ret[1].raised = "TypeError"
  /\ calls[1].reset = 0
  /\ calls[1].seed = 1

\* C5: the done flag a step returns is true exactly when the updated x or the
\* updated theta is strictly outside its threshold interval; a value on a
\* threshold is not done.
C5_DoneIffStrictlyOutside ==
  LastStepReturned =>
    (ret[1].done <=>
       \/ ret[1].obs[1] < -env[1].x_threshold
       \/ ret[1].obs[1] > env[1].x_threshold
       \/ ret[1].obs[3] < -env[1].theta_threshold_radians
       \/ ret[1].obs[3] > env[1].theta_threshold_radians)

C5_Witness ==
  /\ LastStepReturned
  /\ ret[1].obs[3] = env[1].theta_threshold_radians
  /\ ~ret[1].done

\* C6: after reset, whatever came before, steps_beyond_done is None, the four
\* state components are within [-0.05, 0.05], the returned observation is the
\* new state, and the call did not fail.
C6_ResetPostcondition ==
  ret[1].call = "reset" =>
    /\ ret[1].raised = "none"
    /\ env[1].steps_beyond_done = None
    /\ Len(env[1].state) = 4
    /\ \A i \in 1 .. 4 : env[1].state[i] >= -50 /\ env[1].state[i] <= 50
    /\ ret[1].obs = env[1].state

C6_Witness ==
  /\ ret[1].call = "reset"
  /\ hist[1].found # None
  /\ hist[1].found[1] >= 1

\* C7: no call changes a stored parameter; re-seeding does not redraw
\* force_mag, and total_mass and polemass_length stay the values derived at
\* construction.
C7_ParametersImmutable ==
  [][\A e \in DOMAIN env : Params(env'[e]) = Params(env[e])]_vars

C7_Witness ==
  /\ calls[1].seed = 1
  /\ LastStepReturned
  /\ env[1].force_mag
       # Mul(10 * Scale,
             Scale + uniform(np_random(env[1].np_random.seed), 0, -300, 300))

\* C8 (as claimed): the first valid step call after a step of the episode has
\* returned done does not raise and emits the warning, and no later step of
\* the episode emits it.
C8_WarningOnFirstOverstep ==
  [][(ret'[1].call = "step" /\ ret'[1].arg \in {0, 1} /\ hist[1].ndone > 0
        /\ hist'[1].nafter = hist[1].nafter + 1)
       => /\ ret'[1].raised = "none"
          /\ ret'[1].warned <=> (hist[1].nafter = 0)]_vars

\* C9: steps_beyond_done is None exactly when no step since the last reset
\* returned done; otherwise it is the number of steps since that reset that
\* returned done, minus 1; and it does not decrease except by a reset.
C9_StepsBeyondDoneCounts ==
  /\ [](/\ (env[1].steps_beyond_done = None) <=> (hist[1].ndone = 0)
        /\ env[1].steps_beyond_done # None =>
             /\ env[1].steps_beyond_done[1] >= 0
             /\ env[1].steps_beyond_done[1] = hist[1].ndone - 1)
  /\ [][(env[1].steps_beyond_done # None /\ ret'[1].call # "reset")
          => /\ env'[1].steps_beyond_done # None
             /\ env'[1].steps_beyond_done[1]
                  >= env[1].steps_beyond_done[1]]_vars

C9_Witness ==
  /\ LastStepReturned
  /\ env[1].steps_beyond_done = Some(1)
  /\ hist[1].ndone = 2
  /\ hist[1].nafter = 2

\* C10: a step that returns gives reward 0 exactly when its own done flag is
\* true and steps_beyond_done was already an integer; otherwise reward 1.  A
\* step that is not done leaves steps_beyond_done alone, also after an
\* earlier step of the episode returned done.
C10_RewardCharacterisation ==
  [][StepReturned =>
       /\ ret'[1].reward \in {0, 1}
       /\ ret'[1].reward = 0
            <=> (ret'[1].done /\ env[1].steps_beyond_done # None)
       /\ ~ret'[1].done =>
            env'[1].steps_beyond_done = env[1].steps_beyond_done]_vars

C10_Witness ==
  /\ LastStepReturned
  /\ ~ret[1].done
  /\ ret[1].reward = 1
  /\ hist[1].ndone = 1
  /\ hist[1].nafter = 1

====
